---- MODULE Spec2Model ----
(***************************************************************************)
(* Model of the nspanel_haui lifecycle base (haui/abstract/part.py) and   *)
(* of the MQTT controller (haui/controller/mqtt.py).                      *)
(*                                                                         *)
(* One object is exercised per behaviour: either a generic HAUIPart       *)
(* subclass whose start_part / stop_part hooks may return or raise, or    *)
(* the HAUIMQTTController.  The controller runs on a control thread       *)
(* (start, stop, send_cmd, inbound deliveries) and on one thread per      *)
(* threading.Timer; the control thread's calls are split at each access   *)
(* to the state shared with the timer threads (_status_timer, the Timer   *)
(* objects).                                                               *)
(***************************************************************************)
EXTENDS Integers, Sequences, FiniteSets

\* ---------------------------------------------------------------- bounds
\* threading.Timer objects that are live (started, not yet finished) at the same time.
MaxTimers == 2
\* listen_event registrations the transport holds (one per successful start_part).
MaxListeners == 2
\* stop_part executions counted between two start_part executions.
MaxRuns == 2
\* tokens in an instance name given to the topic derivation.
MaxNameLen == 3

\* ---------------------------------------------------------------- values
\* Python's None where a str is expected (every str the program builds is non-empty)
None == <<>>
\* Python's None as the value of _status_timer
NoTimer == "None"
\* the states of a live threading.Timer (see the timers section)
TimerStates == {"pending", "check", "create"}
NoTimers == [s \in TimerStates |-> 0]

\* the two kinds of object the model exercises
Kinds == {"HAUIPart", "HAUIMQTTController"}
\* how a hook of a generic HAUIPart subclass ends
HookOutcomes == {"return", "raise"}
\* what the transport does during start_part's subscribe / listen_event
Faults == {"none", "mqtt_subscribe", "listen_event"}

\* command and event vocabularies (haui/mapping/const.py) and the names used
ALL_CMD == {"A"}
ALL_RECV == {"K"}
\* (cmd, value) arguments of send_cmd: a known name with two values, an unknown name
Commands == {<<"A", "1">>, <<"A", "2">>, <<"zz", "1">>}
\* values of app.name, which start_part reads
\* app.name when it is None, and when the app object has no such attribute
PyNone == <<"<None>">>
Absent == <<"<absent>">>
AppNames == {<<"living_room", "/">>, PyNone, Absent}

\* ---------------------------------------------------------------- strings
\* A string is a sequence of tokens; "/" is always a token of its own.
Last(s) == s[Len(s)]
EndsWithSlash(s) == Len(s) > 0 /\ Last(s) = "/"
DropLast(s) == SubSeq(s, 1, Len(s) - 1)

\* f"{name}": str(None) is "None"
Format(name) == IF name = PyNone THEN <<"None">> ELSE name

TopicPrefix_NoStrip(name) == <<"nspanel_haui", "/">> \o Format(name)
\* f"nspanel_haui/{name}", one trailing "/" removed
TopicPrefix(name) ==
    LET p == <<"nspanel_haui", "/">> \o Format(name)
    IN  IF EndsWithSlash(p) THEN DropLast(p) ELSE p
TopicCmd(prefix) == prefix \o <<"/", "cmd">>
TopicRecv_Shared(prefix) == <<"nspanel_haui", "/", "recv">>
TopicRecv(prefix) == prefix \o <<"/", "recv">>

\* self._status_topic, set by __init__ and never assigned again
StatusTopic == <<"nspanel_haui", "/", "status">>
\* the topics of a controller that start_part has configured for `name`
Configure(name) ==
    [prefix |-> TopicPrefix(name), cmd |-> TopicCmd(TopicPrefix(name)),
     recv |-> TopicRecv(TopicPrefix(name)), status |-> StatusTopic]
\* the topics of a controller before its first start
NoTopics == [prefix |-> None, cmd |-> None, recv |-> None, status |-> StatusTopic]

\* instance names: every string of at most MaxNameLen tokens
NameTokens == {"living_room", "kitchen", "/"}
InstanceNames == UNION {[1..n -> NameTokens] : n \in 0..MaxNameLen}

\* json.dumps of a str
JsonStr(s) == <<"\"", s, "\"">>
\* json.dumps({"name": cmd, "value": value})
JsonDumps(cmd, value) ==
    <<"{">> \o JsonStr("name") \o <<": ">> \o JsonStr(cmd) \o <<", ">>
        \o JsonStr("value") \o <<": ">> \o JsonStr(value) \o <<"}">>

\* ---------------------------------------------------------------- state
VARIABLES
    kind,           \* the class of the object
    app_name,       \* self.app.name, fixed by the host for the life of the app
    pair,           \* two controllers of one process: their instance names and topics
    started,        \* HAUIPart._started
    prev_cmd,       \* HAUIMQTTController.prev_cmd
    topic_prefix,   \* _topic_prefix
    topic_cmd,      \* _topic_cmd
    topic_recv,     \* _topic_recv
    status_timer,   \* _status_timer: None, or the state of the Timer it references
    timers,         \* the live Timers _status_timer does not reference: how many per state
    listeners,      \* topics of the listen_event registrations of callback_event
    pc,             \* position of the control thread
    last,           \* what the last completed call of the control thread did
    transmitted,    \* record of the last publish on the command topic that succeeded
    startPartRuns,  \* start_part executions since _started was last set False
    stopPartRuns    \* stop_part executions since the last start_part execution

progVars == <<started, prev_cmd, topic_prefix, topic_cmd, topic_recv,
              status_timer, timers, listeners>>
vars == <<kind, app_name, pair, started, prev_cmd, topic_prefix, topic_cmd, topic_recv,
          status_timer, timers, listeners, pc, last, transmitted,
          startPartRuns, stopPartRuns>>

NoCall ==
    [op |-> "none", raised |-> FALSE, hook |-> FALSE, hookRaised |-> FALSE, pubs |-> 0, pubFailed |-> FALSE,
     events |-> <<>>, rec |-> <<>>, force |-> FALSE, dup |-> FALSE,
     warned |-> FALSE, calls |-> 0, topic |-> None]

NoPair == [names |-> <<<<>>, <<>>>>, topics |-> <<NoTopics, NoTopics>>]

Init ==
    /\ kind \in Kinds
    /\ app_name \in AppNames
    /\ pair = NoPair
    /\ started = FALSE
    /\ prev_cmd = None
    /\ topic_prefix = None
    /\ topic_cmd = None
    /\ topic_recv = None
    /\ status_timer = NoTimer
    /\ timers = NoTimers
    /\ listeners = <<>>
    /\ pc = "idle"
    /\ last = NoCall
    /\ transmitted = None
    /\ startPartRuns = 0
    /\ stopPartRuns = 0

\* ---------------------------------------------------------------- HAUIPart
StartSkips_Never(s) == FALSE
\* start(): `if self._started: return`
StartSkips(s) == s
\* stop(): `if not self._started: return`
StopSkips(s) == ~s
StartedAfterHook_RollsBack(outcome) == outcome # "raise"
\* start(): _started is set before the try block and no handler resets it
StartedAfterHook(outcome) == TRUE
\* start(): the except clause logs and re-raises
StartRaises(outcome) == outcome = "raise"
\* stop(): stop_part() is called outside any try, _started = False follows it
StartedAfterStopHook(outcome) == outcome = "raise"

\* start() of a generic HAUIPart subclass whose start_part ends with `outcome`
PartStart(outcome) ==
    /\ kind = "HAUIPart"
    /\ pc = "idle"
    /\ IF StartSkips(started)
       THEN /\ last' = [NoCall EXCEPT !.op = "start"]
            /\ UNCHANGED <<started, startPartRuns, stopPartRuns>>
       ELSE /\ started' = StartedAfterHook(outcome)
            /\ startPartRuns' = startPartRuns + 1
            /\ stopPartRuns' = 0
            /\ last' = [NoCall EXCEPT !.op = "start", !.hook = TRUE,
                                      !.hookRaised = (outcome = "raise"),
                                      !.raised = StartRaises(outcome)]
    /\ UNCHANGED <<kind, app_name, pair, prev_cmd, topic_prefix, topic_cmd, topic_recv,
                   status_timer, timers, listeners, pc, transmitted>>

\* stop() of a generic HAUIPart subclass whose stop_part ends with `outcome`
PartStop(outcome) ==
    /\ kind = "HAUIPart"
    /\ pc = "idle"
    /\ IF StopSkips(started)
       THEN /\ last' = [NoCall EXCEPT !.op = "stop"]
            /\ UNCHANGED <<started, startPartRuns, stopPartRuns>>
       ELSE /\ stopPartRuns < MaxRuns
            /\ stopPartRuns' = stopPartRuns + 1
            /\ started' = StartedAfterStopHook(outcome)
            /\ startPartRuns' = IF started' THEN startPartRuns ELSE 0
            /\ last' = [NoCall EXCEPT !.op = "stop", !.hook = TRUE,
                                      !.hookRaised = (outcome = "raise"),
                                      !.raised = (outcome = "raise")]
    /\ UNCHANGED <<kind, app_name, pair, prev_cmd, topic_prefix, topic_cmd, topic_recv,
                   status_timer, timers, listeners, pc, transmitted>>

\* ---------------------------------------------------------------- timers
\* A threading.Timer is "pending" (started, interval not yet elapsed, not
\* cancelled), "check" (fired: _status_timer_callback is about to publish and
\* to test _status_timer), "create" (its test found None) or "dead" (cancelled,
\* or its callback has returned).  A dead Timer matters only while _status_timer
\* references it; Timer objects are interchangeable, so the model keeps the
\* state of the referenced one and counts the others.
Add(tm, s) == [tm EXCEPT ![s] = @ + 1]
Remove(tm, s) == [tm EXCEPT ![s] = @ - 1]
Count(tm) == tm["pending"] + tm["check"] + tm["create"]

\* the Timers left when _status_timer stops referencing `handle`
Detach(tm, handle) == IF handle \in TimerStates THEN Add(tm, handle) ELSE tm

Pending == status_timer = "pending" \/ timers["pending"] > 0
Running == status_timer = "check" \/ timers["check"] + timers["create"] > 0

\* _start_status_timer: `if self._status_timer is not None: return`
TimerStartSkips(handle) == handle # NoTimer

\* threading.Timer(30.0, ...).start() assigned to _status_timer; tm: the Timers
\* the handle does not reference once the calling thread's own Timer is done
CreateTimer(tm) ==
    /\ Count(Detach(tm, status_timer)) < MaxTimers
    /\ status_timer' = "pending"
    /\ timers' = Detach(tm, status_timer)

\* ---------------------------------------------------------------- start()
Subscribe_CmdTopic(fault, topic, pubFailed) ==
    /\ started' = StartedAfterHook(IF fault = "none" THEN "return" ELSE "raise")
    /\ listeners' = IF fault = "none" THEN Append(listeners, DropLast(topic) \o <<"cmd">>)
                    ELSE listeners
    /\ last' = [NoCall EXCEPT !.op = "start", !.hook = TRUE, !.pubs = 1,
                              !.pubFailed = pubFailed,
                              !.hookRaised = (fault # "none"),
                              !.raised = StartRaises(IF fault = "none" THEN "return"
                                                     ELSE "raise")]
    /\ pc' = "idle"
\* the tail of start_part: mqtt_subscribe, then listen_event, either may raise
Subscribe(fault, topic, pubFailed) ==
    /\ started' = StartedAfterHook(IF fault = "none" THEN "return" ELSE "raise")
    /\ listeners' = IF fault = "none" THEN Append(listeners, topic) ELSE listeners
    /\ last' = [NoCall EXCEPT !.op = "start", !.hook = TRUE, !.pubs = 1,
                              !.pubFailed = pubFailed,
                              !.hookRaised = (fault # "none"),
                              !.raised = StartRaises(IF fault = "none" THEN "return"
                                                     ELSE "raise")]
    /\ pc' = "idle"

\* _publish_status: the publish is inside try/except Exception, which logs
StatusPublishRaises(ok) == FALSE

\* name = self.app.name raises AttributeError when the attribute is missing
NameRaises(name) == name = Absent

\* start() up to the test in _start_status_timer; when the handle is set the
\* rest of start_part follows without touching the timers.  `ok`: the
\* transport's publish of "online" returns normally
Start(fault, ok) ==
    /\ kind = "HAUIMQTTController"
    /\ pc = "idle"
    /\ IF StartSkips(started)
       THEN /\ last' = [NoCall EXCEPT !.op = "start"]
            /\ UNCHANGED <<started, topic_prefix, topic_cmd, topic_recv, listeners,
                           pc, startPartRuns, stopPartRuns>>
       ELSE /\ Len(listeners) < MaxListeners
            /\ startPartRuns' = startPartRuns + 1
            /\ stopPartRuns' = 0
            /\ IF NameRaises(app_name)
               THEN /\ started' = StartedAfterHook("raise")
                    /\ last' = [NoCall EXCEPT !.op = "start", !.hook = TRUE,
                                              !.hookRaised = TRUE,
                                              !.raised = StartRaises("raise")]
                    /\ UNCHANGED <<topic_prefix, topic_cmd, topic_recv, listeners, pc>>
               ELSE /\ topic_prefix' = TopicPrefix(app_name)
                    /\ topic_cmd' = TopicCmd(topic_prefix')
                    /\ topic_recv' = TopicRecv(topic_prefix')
                    /\ IF StatusPublishRaises(ok)
                       THEN /\ started' = StartedAfterHook("raise")
                            /\ last' = [NoCall EXCEPT !.op = "start", !.hook = TRUE,
                                                      !.hookRaised = TRUE, !.pubs = 1,
                                                      !.pubFailed = TRUE,
                                                      !.raised = StartRaises("raise")]
                            /\ UNCHANGED <<listeners, pc>>
                       ELSE IF TimerStartSkips(status_timer)
                       THEN Subscribe(fault, topic_recv', ~ok)
                       ELSE /\ started' = TRUE
                            /\ pc' = "start_timer"
                            /\ last' = [NoCall EXCEPT !.op = "start_part", !.pubs = 1,
                                                      !.pubFailed = ~ok]
                            /\ UNCHANGED listeners
    /\ UNCHANGED <<kind, app_name, pair, prev_cmd, status_timer, timers, transmitted>>

\* start_part from the creation of the Timer to its end
StartTimer(fault) ==
    /\ pc = "start_timer"
    /\ CreateTimer(timers)
    /\ Subscribe(fault, topic_recv, last.pubFailed)
    /\ UNCHANGED <<kind, app_name, pair, prev_cmd, topic_prefix, topic_cmd, topic_recv,
                   transmitted, startPartRuns, stopPartRuns>>

\* ---------------------------------------------------------------- stop()
\* the tail of stop_part and of stop(): publish "offline", _started = False
StopEnd(ok) ==
    /\ started' = StartedAfterStopHook(IF StatusPublishRaises(ok) THEN "raise"
                                       ELSE "return")
    /\ startPartRuns' = IF started' THEN startPartRuns ELSE 0
    /\ last' = [NoCall EXCEPT !.op = "stop", !.hook = TRUE, !.pubs = 1,
                              !.pubFailed = ~ok,
                              !.hookRaised = StatusPublishRaises(ok),
                              !.raised = StatusPublishRaises(ok)]
    /\ pc' = "idle"

\* stop() up to the test in _stop_status_timer; `ok`: the transport's publish
\* of "offline" returns normally
Stop(ok) ==
    /\ kind = "HAUIMQTTController"
    /\ pc = "idle"
    /\ IF StopSkips(started)
       THEN /\ last' = [NoCall EXCEPT !.op = "stop"]
            /\ UNCHANGED <<started, pc, startPartRuns, stopPartRuns>>
       ELSE /\ stopPartRuns < MaxRuns
            /\ stopPartRuns' = stopPartRuns + 1
            /\ IF status_timer # NoTimer
               THEN /\ pc' = "stop_cancel"
                    /\ UNCHANGED <<started, startPartRuns, last>>
               ELSE StopEnd(ok)
    /\ UNCHANGED <<kind, app_name, pair, prev_cmd, topic_prefix, topic_cmd, topic_recv,
                   status_timer, timers, listeners, transmitted>>

\* _stop_status_timer: self._status_timer.cancel(), which stops a Timer that
\* has not fired and does nothing to one that has
StopCancel ==
    /\ pc = "stop_cancel"
    /\ status_timer' = IF status_timer = "pending" THEN "dead" ELSE status_timer
    /\ pc' = "stop_clear"
    /\ UNCHANGED <<kind, app_name, pair, started, prev_cmd, topic_prefix, topic_cmd, topic_recv,
                   timers, listeners, last, transmitted,
                   startPartRuns, stopPartRuns>>

\* _stop_status_timer: self._status_timer = None, then the tail of stop()
StopClear(ok) ==
    /\ pc = "stop_clear"
    /\ status_timer' = NoTimer
    /\ timers' = Detach(timers, status_timer)
    /\ StopEnd(ok)
    /\ UNCHANGED <<kind, app_name, pair, prev_cmd, topic_prefix, topic_cmd, topic_recv,
                   listeners, transmitted, stopPartRuns>>

\* ---------------------------------------------------------------- timer thread
\* The interval elapses on a Timer that was not cancelled: its callback
\* starts to run.  The publish of "online" touches nothing the other thread
\* reads or writes, so it is taken together with the test that follows it.
\* ... on the Timer _status_timer references
TimerFireHandle ==
    /\ status_timer = "pending"
    /\ status_timer' = "check"
    /\ UNCHANGED <<kind, app_name, pair, started, prev_cmd, topic_prefix, topic_cmd, topic_recv,
                   timers, listeners, pc, last, transmitted,
                   startPartRuns, stopPartRuns>>

\* ... on a Timer _status_timer does not reference
TimerFireDetached ==
    /\ timers["pending"] > 0
    /\ timers' = Add(Remove(timers, "pending"), "check")
    /\ UNCHANGED <<kind, app_name, pair, started, prev_cmd, topic_prefix, topic_cmd, topic_recv,
                   status_timer, listeners, pc, last, transmitted,
                   startPartRuns, stopPartRuns>>

\* _status_timer_callback: _publish_status("online") (`ok`: the transport's
\* publish returns normally), then _start_status_timer, the test of the handle,
\* in the callback of the Timer the handle references: the callback returns
TimerCheckHandle(ok) ==
    /\ status_timer = "check"
    /\ StatusPublishRaises(ok) \/ TimerStartSkips(status_timer)
    /\ status_timer' = "dead"
    /\ UNCHANGED <<kind, app_name, pair, started, prev_cmd, topic_prefix, topic_cmd, topic_recv,
                   timers, listeners, pc, last, transmitted,
                   startPartRuns, stopPartRuns>>

\* the same test in the callback of a Timer the handle does not reference
TimerCheckDetached(ok) ==
    /\ timers["check"] > 0
    /\ timers' = IF StatusPublishRaises(ok) \/ TimerStartSkips(status_timer)
                 THEN Remove(timers, "check")
                 ELSE Add(Remove(timers, "check"), "create")
    /\ UNCHANGED <<kind, app_name, pair, started, prev_cmd, topic_prefix, topic_cmd, topic_recv,
                   status_timer, listeners, pc, last, transmitted,
                   startPartRuns, stopPartRuns>>

\* _status_timer_callback -> _start_status_timer: the new Timer; the callback
\* then returns
TimerCreate ==
    /\ timers["create"] > 0
    /\ CreateTimer(Remove(timers, "create"))
    /\ UNCHANGED <<kind, app_name, pair, started, prev_cmd, topic_prefix, topic_cmd, topic_recv,
                   listeners, pc, last, transmitted, startPartRuns, stopPartRuns>>

\* ---------------------------------------------------------------- send_cmd
Suppressed_IgnoresForce(force, prev, rec) == prev = rec
\* `if not force and self.prev_cmd == cmd: ... return`
Suppressed(force, prev, rec) == ~force /\ prev = rec
PrevAfterPublish_Always(prev, rec, ok) == rec
\* mqtt_publish(...) then `self.prev_cmd = cmd`: a raising publish skips the assignment
PrevAfterPublish(prev, rec, ok) == IF ok THEN rec ELSE prev
\* mqtt_publish is called outside any try
SendRaises(ok) == ~ok

\* send_cmd(cmd, value, force); `ok`: the transport's publish returns normally
SendCmd(cmd, value, force, ok) ==
    /\ kind = "HAUIMQTTController"
    /\ pc = "idle"
    /\ LET rec == JsonDumps(cmd, value)
           call == [NoCall EXCEPT !.op = "send_cmd", !.rec = rec, !.force = force,
                                  !.dup = (rec = transmitted),
                                  !.warned = (cmd \notin ALL_CMD)]
       IN  IF Suppressed(force, prev_cmd, rec)
           THEN /\ last' = call
                /\ UNCHANGED <<prev_cmd, transmitted>>
           ELSE /\ prev_cmd' = PrevAfterPublish(prev_cmd, rec, ok)
                /\ transmitted' = IF ok THEN rec ELSE transmitted
                /\ last' = [call EXCEPT !.pubs = 1, !.pubFailed = ~ok,
                                        !.topic = topic_cmd,
                                        !.raised = SendRaises(ok)]
    /\ UNCHANGED <<kind, app_name, pair, started, topic_prefix, topic_cmd, topic_recv, status_timer,
                   timers, listeners, pc, startPartRuns, stopPartRuns>>

\* ---------------------------------------------------------------- inbound
\* an inbound object with the given members, as the panel serializes it
JsonMember(k, v) == JsonStr(k) \o <<": ">> \o JsonStr(v)
Payloads ==
    { <<>>, <<"not-json">>, <<"5">>, <<"null">>, <<"[", "]">>, JsonStr("s"),
      <<"{", "}">>,
      <<"{">> \o JsonMember("name", "X") \o <<"}">>,
      <<"{">> \o JsonMember("value", "Y") \o <<"}">>,
      JsonDumps("X", "Y"), JsonDumps("K", "Y") }

Structural == {"{", "}", "[", "]", "\"", ": ", ", "}
IsStrAt(t, i) ==
    /\ i + 2 <= Len(t)
    /\ t[i] = "\"" /\ t[i + 2] = "\""
    /\ t[i + 1] \notin Structural
JsonError == [type |-> "error"]

\* the members of an object, read from token i on; a later key overrides
RECURSIVE ParseMembers(_, _, _)
ParseMembers(t, i, acc) ==
    IF IsStrAt(t, i) /\ i + 6 <= Len(t) /\ t[i + 3] = ": " /\ IsStrAt(t, i + 4)
    THEN LET k == t[i + 1]
             v == t[i + 5]
             acc2 == [x \in DOMAIN acc \cup {k} |-> IF x = k THEN v ELSE acc[x]]
         IN  IF i + 7 = Len(t) /\ t[i + 7] = "}"
             THEN [type |-> "object", members |-> acc2]
             ELSE IF i + 7 < Len(t) /\ t[i + 7] = ", "
                  THEN ParseMembers(t, i + 8, acc2)
                  ELSE JsonError
    ELSE JsonError

\* json.loads(payload); "error" stands for the exception it raises
JsonLoads(t) ==
    IF t = <<>> THEN JsonError
    ELSE IF t = <<"{", "}">> THEN [type |-> "object", members |-> <<>>]
    ELSE IF t[1] = "{" THEN ParseMembers(t, 2, <<>>)
    ELSE IF t = <<"[", "]">> THEN [type |-> "list"]
    ELSE IF t = <<"null">> THEN [type |-> "null"]
    ELSE IF Len(t) = 1 /\ t[1] \in {"5"} THEN [type |-> "number"]
    ELSE IF Len(t) = 3 /\ IsStrAt(t, 1) THEN [type |-> "str"]
    ELSE JsonError

\* dict.get(key, default)
DictGet(d, key, default) == IF key \in DOMAIN d THEN d[key] ELSE default

\* HAUIEvent(name, value)
HAUIEvent(name, value) == [name |-> name, value |-> value]

Ignored == [raised |-> FALSE, events |-> <<>>, warned |-> FALSE]
CallbackEvent_DropsUnknown(event_name, data) ==
    IF event_name # "MQTT_MESSAGE" THEN Ignored
    ELSE LET payload == DictGet(data, "payload", <<>>)
         IN  IF payload = <<>> THEN Ignored
             ELSE LET event == JsonLoads(payload)
                  IN  IF event.type = "error" THEN Ignored
                      ELSE IF event.type # "object"
                           THEN [Ignored EXCEPT !.raised = TRUE]
                           ELSE LET name == DictGet(event.members, "name", "unknown")
                                    value == DictGet(event.members, "value", "")
                                IN  [raised |-> FALSE,
                                     events |-> IF name \in ALL_RECV
                                                THEN <<HAUIEvent(name, value)>>
                                                ELSE <<>>,
                                     warned |-> name \notin ALL_RECV]
\* callback_event(event_name, data, kwargs): whether it raised, the events it
\* handed to the host callback, whether it logged the unknown-name warning
CallbackEvent(event_name, data) ==
    IF event_name # "MQTT_MESSAGE" THEN Ignored
    ELSE LET payload == DictGet(data, "payload", <<>>)
         IN  IF payload = <<>> THEN Ignored
             ELSE LET event == JsonLoads(payload)
                  IN  IF event.type = "error" THEN Ignored
                      ELSE IF event.type # "object"
                           THEN [Ignored EXCEPT !.raised = TRUE]
                           ELSE LET name == DictGet(event.members, "name", "unknown")
                                    value == DictGet(event.members, "value", "")
                                IN  [raised |-> FALSE,
                                     events |-> <<HAUIEvent(name, value)>>,
                                     warned |-> name \notin ALL_RECV]

RECURSIVE Repeat(_, _)
Repeat(s, n) == IF n = 0 THEN <<>> ELSE s \o Repeat(s, n - 1)

\* the transport delivers one inbound message on `topic`: every listen_event
\* registration for that topic calls callback_event once
Deliver(topic, payload) ==
    /\ kind = "HAUIMQTTController"
    /\ pc = "idle"
    /\ \E i \in DOMAIN listeners : listeners[i] = topic
    /\ LET n == Cardinality({i \in DOMAIN listeners : listeners[i] = topic})
           r == CallbackEvent("MQTT_MESSAGE", [topic |-> topic, payload |-> payload])
       IN  last' = [NoCall EXCEPT !.op = "callback_event", !.raised = r.raised,
                                  !.events = Repeat(r.events, n), !.rec = payload,
                                  !.warned = r.warned, !.calls = n]
    /\ UNCHANGED <<kind, app_name, pair, started, prev_cmd, topic_prefix, topic_cmd, topic_recv,
                   status_timer, timers, listeners, pc, transmitted,
                   startPartRuns, stopPartRuns>>

Next ==
    \/ \E o \in HookOutcomes : PartStart(o)
    \/ \E o \in HookOutcomes : PartStop(o)
    \/ \E f \in Faults, ok \in BOOLEAN : Start(f, ok)
    \/ \E f \in Faults : StartTimer(f)
    \/ \E ok \in BOOLEAN : Stop(ok)
    \/ StopCancel
    \/ \E ok \in BOOLEAN : StopClear(ok)
    \/ TimerFireHandle
    \/ TimerFireDetached
    \/ \E ok \in BOOLEAN : TimerCheckHandle(ok)
    \/ \E ok \in BOOLEAN : TimerCheckDetached(ok)
    \/ TimerCreate
    \/ \E c \in Commands, f, ok \in BOOLEAN : SendCmd(c[1], c[2], f, ok)
    \/ \E n \in AppNames \ {Absent}, p \in Payloads :
            Deliver(TopicRecv(TopicPrefix(n)), p)

Spec == Init /\ [][Next]_vars

\* ---------------------------------------------------------------- topic derivation
\* Two controllers with any two instance names, each configured by the topic
\* assignments of its start_part.
InitTopics ==
    /\ kind = "HAUIMQTTController"
    /\ app_name = <<"living_room", "/">>
    /\ pair \in {[names |-> <<a, b>>, topics |-> <<NoTopics, NoTopics>>] :
                    a \in InstanceNames, b \in InstanceNames}
    /\ started = FALSE
    /\ prev_cmd = None
    /\ topic_prefix = None
    /\ topic_cmd = None
    /\ topic_recv = None
    /\ status_timer = NoTimer
    /\ timers = NoTimers
    /\ listeners = <<>>
    /\ pc = "idle"
    /\ last = NoCall
    /\ transmitted = None
    /\ startPartRuns = 0
    /\ stopPartRuns = 0

\* start_part of controller i, the assignments of its topics
ConfigureTopics(i) ==
    /\ pair.topics[i] = NoTopics
    /\ pair' = [pair EXCEPT !.topics[i] = Configure(pair.names[i])]
    /\ UNCHANGED <<kind, app_name, started, prev_cmd, topic_prefix, topic_cmd,
                   topic_recv, status_timer, timers, listeners, pc, last,
                   transmitted, startPartRuns, stopPartRuns>>

NextTopics == \E i \in {1, 2} : ConfigureTopics(i)

SpecTopics == InitTopics /\ [][NextTopics]_vars

\* ================================================================ claims

\* C1: start_part runs exactly once per stopped->started transition: while
\* _started is true exactly one start_part has run since the flag was last
\* false, and a start() issued while started runs no hook and changes nothing.
C1_StartOnce ==
    /\ [](startPartRuns = IF started THEN 1 ELSE 0)
    /\ [][(last' # last /\ last'.op = "start" /\ started /\ pc = "idle")
            => (~last'.hook /\ UNCHANGED progVars)]_vars
C1_Witness ==
    /\ kind = "HAUIMQTTController"
    /\ last.op = "start" /\ ~last.hook /\ started /\ startPartRuns = 1

\* C2 (as claimed): between two start_part executions stop_part runs at most
\* once, also when it raises; stop() on a part that is not started runs no
\* hook, publishes nothing and leaves the part stopped.
C2_StopOnce ==
    /\ stopPartRuns <= 1
    /\ (last.op = "stop" /\ ~last.hook /\ pc = "idle") => (last.pubs = 0 /\ ~started)

\* C3: when start_part raises, start() raises to its caller, _started is true
\* afterwards, and the start() that follows does not run start_part again.
C3_FlagBeforeHook ==
    /\ []((last.op = "start" /\ last.hookRaised)
            => (last.raised /\ started /\ startPartRuns = 1))
    /\ [][(last.op = "start" /\ last.hookRaised /\ last' # last /\ last'.op = "start")
            => ~last'.hook]_vars
C3_Witness ==
    /\ kind = "HAUIMQTTController"
    /\ last.op = "start" /\ last.hookRaised /\ last.raised /\ started

\* C4: a send_cmd call makes no publish exactly when it is not forced and its
\* record equals the record of the last command that was transmitted, and
\* exactly one publish otherwise.
C4_SendDedup ==
    last.op = "send_cmd"
        => last.pubs = (IF ~last.force /\ last.dup THEN 0 ELSE 1)
C4_Witness ==
    /\ last.op = "send_cmd" /\ last.force /\ last.dup /\ last.pubs = 1
    /\ last.warned

\* C5 (as claimed): after a send_cmd whose publish failed, prev_cmd is that
\* call's record.
C5_RememberRegardless ==
    (last.op = "send_cmd" /\ last.pubFailed) => prev_cmd = last.rec

\* C6 (as claimed): start() is the only call that raises to its caller; a
\* failing publish inside send_cmd is not visible to the caller.
C6_OnlyStartRaises ==
    last.raised => last.op = "start"

\* C7 (as claimed): callback_event never raises, whatever the payload; an empty
\* payload and one that is not JSON forward no event.
C7_CallbackNeverRaises ==
    last.op = "callback_event" =>
        /\ ~last.raised
        /\ last.rec \in {<<>>, <<"not-json">>} => last.events = <<>>

\* C8 (as claimed): one inbound message makes at most one call of the host
\* event callback.
C8_AtMostOnce ==
    last.op = "callback_event" => Len(last.events) <= 1

\* C9 (as claimed): while the controller stays started, every timer firing
\* schedules the next one: when no call and no timer callback is in progress,
\* a timer is pending.
C9_Repeats ==
    (kind = "HAUIMQTTController" /\ started /\ pc = "idle"
        /\ ~Running)
    => Pending

\* C10 (as claimed): once stop() has returned no timer is pending; a stop()
\* that ran stop_part published "offline" once, any other stop() nothing.
C10_NoTimerAfterStop ==
    kind = "HAUIMQTTController" =>
        /\ (~started /\ pc = "idle") => ~Pending
        /\ last.op = "stop" => last.pubs = (IF last.hook THEN 1 ELSE 0)

\* the instance name without one trailing "/"
StripSlash(name) == IF EndsWithSlash(name) THEN DropLast(name) ELSE name
BothConfigured == pair.topics[1] # NoTopics /\ pair.topics[2] # NoTopics

C12_StripsName ==
    \A i \in {1, 2} :
        pair.topics[i] # NoTopics
        => /\ pair.topics[i].prefix
                = <<"nspanel_haui", "/">> \o StripSlash(pair.names[i])
           /\ pair.topics[i].cmd = pair.topics[i].prefix \o <<"/", "cmd">>
           /\ pair.topics[i].recv = pair.topics[i].prefix \o <<"/", "recv">>

\* C12 (amended): the prefix is "nspanel_haui/" followed by the instance name,
\* and one trailing "/" of that whole string is removed: for a non-empty name
\* that is one trailing "/" of the name, for the empty name the prefix is
\* "nspanel_haui"; the command and receive topics are the prefix followed by
\* "/cmd" and "/recv".
C12_Derivation ==
    \A i \in {1, 2} :
        pair.topics[i] # NoTopics
        => /\ pair.topics[i].prefix
                = (IF pair.names[i] = <<>> THEN <<"nspanel_haui">>
                   ELSE <<"nspanel_haui", "/">> \o StripSlash(pair.names[i]))
           /\ pair.topics[i].cmd = pair.topics[i].prefix \o <<"/", "cmd">>
           /\ pair.topics[i].recv = pair.topics[i].prefix \o <<"/", "recv">>
C12_Witness ==
    /\ pair.names[1] = <<"living_room", "/">>
    /\ pair.topics[1].prefix = <<"nspanel_haui", "/", "living_room">>
    /\ pair.topics[1].cmd = <<"nspanel_haui", "/", "living_room", "/", "cmd">>
    /\ pair.names[2] = <<"kitchen", "/", "/">>
    /\ pair.topics[2].prefix = <<"nspanel_haui", "/", "kitchen", "/">>

\* C13: when the app name is unavailable (None, or no such attribute) a
\* started controller has topics, and they are not derived from the missing
\* value: start() has not failed on the name and the prefix is not
\* "nspanel_haui/None".
C13_Fallback ==
    (kind = "HAUIMQTTController" /\ started /\ pc = "idle"
        /\ app_name \in {PyNone, Absent})
    => /\ topic_prefix # None
       /\ topic_prefix # <<"nspanel_haui", "/", "None">>

\* C14: a callback_event call whose payload is the JSON object
\* {"name": X, "value": Y} calls the host event callback exactly once, with
\* the event (X, Y), whether X is a known inbound name ("K") or not ("X");
\* an unknown name is only logged.
C14_OneEventPerObject ==
    \A x \in {"K", "X"} :
        (last.op = "callback_event" /\ last.rec = JsonDumps(x, "Y"))
        => /\ ~last.raised
           /\ Len(last.events) = last.calls
           /\ \A i \in DOMAIN last.events :
                 last.events[i] = [name |-> x, value |-> "Y"]
           /\ last.warned = (x \notin ALL_RECV)
C14_Witness ==
    /\ last.op = "callback_event"
    /\ last.rec = JsonDumps("X", "Y")
    /\ last.calls = 1
    /\ last.warned
    /\ last.events = <<[name |-> "X", value |-> "Y"]>>

C15_Scheduled ==
    \/ status_timer' = "pending" /\ status_timer # "pending"
    \/ timers'["pending"] > timers["pending"]
    \/ timers'["create"] > timers["create"]

\* C15: a failing status publish is not fatal.  A start() whose "online"
\* publish failed, and whose subscription did not, leaves the controller
\* started with a timer scheduled and the receive topic registered; a stop()
\* whose "offline" publish failed returns normally and leaves the controller
\* stopped; a timer callback whose "online" publish failed does not return
\* without scheduling the next firing.
C15_PublishFaultTolerated ==
    /\ [](/\ (pc = "idle" /\ last.op = "start" /\ last.pubFailed /\ ~last.hookRaised)
             => /\ started /\ ~last.raised
                /\ status_timer # NoTimer
                /\ listeners # <<>> /\ listeners[Len(listeners)] = topic_recv
          /\ (pc = "idle" /\ last.op = "stop" /\ last.pubFailed)
             => ~started /\ ~last.raised)
    /\ [][(TimerCheckHandle(FALSE) \/ TimerCheckDetached(FALSE)) => C15_Scheduled]_vars

C16_Topics == <<topic_prefix, topic_cmd, topic_recv>>

\* C16: the topics are written only by start_part: a step that changes the
\* prefix, the command topic or the receive topic is a start() of a controller
\* that was not started, and no send_cmd, callback_event, timer callback or
\* stop() changes them; every subscription and registration is for the
\* receive topic of the topics in force, all three of which are then set; a
\* start() that ran start_part past the name has the topics of its name even
\* when the subscription failed.
C16_TopicsOnlyByStart ==
    /\ [][C16_Topics' # C16_Topics
            => /\ kind = "HAUIMQTTController" /\ pc = "idle"
               /\ ~started /\ started'
               /\ \E f \in Faults, ok \in BOOLEAN : Start(f, ok)]_vars
    /\ [](/\ \A i \in DOMAIN listeners : listeners[i] = topic_recv
          /\ listeners # <<>>
             => /\ topic_prefix # None
                /\ topic_cmd = topic_prefix \o <<"/", "cmd">>
                /\ topic_recv = topic_prefix \o <<"/", "recv">>
          /\ (kind = "HAUIMQTTController" /\ pc = "idle" /\ last.op = "start"
                /\ last.pubs = 1)
             => /\ topic_prefix # None
                /\ topic_cmd = topic_prefix \o <<"/", "cmd">>
                /\ topic_recv = topic_prefix \o <<"/", "recv">>)
C16_Witness ==
    /\ started /\ pc = "idle"
    /\ topic_prefix = <<"nspanel_haui", "/", "living_room">>
    /\ listeners = <<topic_recv>>
    /\ last.op = "start" /\ last.hookRaised /\ last.pubFailed

\* C17: at most one status timer is live (scheduled, not fired, not
\* cancelled) at any time, and it is the one the handle references: no timer
\* the handle does not reference is pending.
C17_OneLiveTimer == timers["pending"] = 0

\* C18: send_cmd never publishes on an unconfigured topic: the topic of every
\* publish it makes has been set by an earlier start().
C18_ConfiguredTopic ==
    (last.op = "send_cmd" /\ last.pubs = 1) => last.topic # None

\* C19: the de-duplication memory changes only in a send_cmd whose publish
\* returned normally, to the record it published; start(), stop(),
\* callback_event, the timer callback and a suppressed send_cmd leave it
\* unchanged, so a non-forced send_cmd of the remembered record is suppressed
\* whether or not the controller was stopped and started in between.
C19_MemoryOnlyByPublish ==
    /\ [][prev_cmd' # prev_cmd
            => /\ last'.op = "send_cmd" /\ last'.pubs = 1 /\ ~last'.pubFailed
               /\ prev_cmd' = last'.rec]_vars
    /\ [][(last' # last /\ last'.op = "send_cmd" /\ ~last'.force
                /\ last'.rec = prev_cmd)
            => last'.pubs = 0 /\ prev_cmd' = prev_cmd]_vars
C19_Witness ==
    /\ started /\ pc = "idle"
    /\ Len(listeners) = 2
    /\ last.op = "send_cmd" /\ last.pubs = 0 /\ ~last.force
    /\ last.rec = prev_cmd
====
